---- MODULE Spec2Model ----
(***************************************************************************)
(* Model of src/util.ts of osx-sign: the bundle walker `walk` with its     *)
(* nested helper `_walkAsync`, the binary filter `getFilePathIfBinary`     *)
(* and the tree flattener `compactFlattenedList`.                          *)
(*                                                                         *)
(* A path is a sequence of entry names (<<"App.app", "exe">> stands for    *)
(* /App.app/exe); a JavaScript string is a sequence too, so the empty      *)
(* string is <<>> and every resolved path is a non-empty string.           *)
(***************************************************************************)
EXTENDS Integers, Sequences, FiniteSets, TLC

VARIABLES
    fs,        \* the filesystem: real path -> node
    fs0,       \* the filesystem when the current walk(root) was called
    root,      \* dirPath given to walk
    task,      \* textual path -> the promise of its callback / _walkAsync frame
    outcome,   \* promise returned by walk: "running", "resolved", "rejected"
    result,    \* value walk resolved with (compactFlattenedList(allPaths))
    run,       \* which successive call of walk(root) this is
    prev,      \* value the previous call of walk(root) resolved with
    removed,   \* real entries unlinked by fs.promises.rm during the current walk
    faults,    \* filesystem operations that failed with an I/O or permission error
    envMoves,  \* changes made to the filesystem by another actor
    flatIn,    \* argument of compactFlattenedList (pure-function specification)
    flatOut,   \* its return value
    flatPc,    \* "call" before, "done" after compactFlattenedList returned
    pwA,       \* an argument list given to removePassword
    pwB,       \* the same list with another secret value
    pwAt,      \* index of the argument that holds the secret value
    pwForm,    \* "next": the value is that argument; "eq": it follows '=' in it
    pwOutA,    \* removePassword(pwA)
    pwOutB,    \* removePassword(pwB)
    pwPc       \* "call" before, "done" after removePassword returned

vars == <<fs, fs0, root, task, outcome, result, run, prev, removed, faults,
          envMoves, flatIn, flatOut, flatPc, pwA, pwB, pwAt, pwForm, pwOutA,
          pwOutB, pwPc>>

walkVars == <<fs, fs0, root, task, outcome, result, run, prev, removed, faults,
              envMoves>>

flatVars == <<flatIn, flatOut, flatPc>>

pwVars == <<pwA, pwB, pwAt, pwForm, pwOutA, pwOutB, pwPc>>

\* ------------------------------------------------------------------ bounds

\* I/O or permission failures injected into one behaviour.
MaxFaults == 1

\* Symbolic links the operating system follows while resolving one path
\* before it gives up with ELOOP.
MaxSymlinks == 2

\* Changes another actor makes to the filesystem during one behaviour.
MaxEnv == 1

\* Successive calls of walk(root).
MaxRuns == 2

\* Longest argument list given to removePassword.
MaxArgs == 3

\* Longest sequence and deepest nesting of the flattener's inputs.
MaxLen == 2

MaxNest == 1

\* ------------------------------------------------------- DeepListItem<T>

Null == [t |-> "null", v |-> <<>>, items |-> <<>>]

Leaf(s) == [t |-> "leaf", v |-> s, items |-> <<>>]

List(xs) == [t |-> "list", v |-> <<>>, items |-> xs]

IsArray(x) == x.t = "list"

\* JavaScript truthiness of a DeepListItem<string>: null is falsy, an array is
\* truthy (also when empty), a string is truthy unless it is empty.
Truthy(x) ==
    CASE x.t = "null" -> FALSE
      [] x.t = "list" -> TRUE
      [] OTHER        -> Len(x.v) > 0

RECURSIVE populateResult(_, _)
RECURSIVE populateItems(_, _, _)

\* for (const item of list) if (item) populateResult(item);
populateItems(acc, items, i) ==
    IF i > Len(items) THEN acc
    ELSE populateItems(IF Truthy(items[i]) THEN populateResult(acc, items[i])
                       ELSE acc,
                       items, i + 1)

populateResult(acc, list) ==
    IF ~IsArray(list)
    THEN IF Truthy(list) THEN Append(acc, list.v) ELSE acc
    ELSE IF Len(list.items) > 0 THEN populateItems(acc, list.items, 1) ELSE acc

compactFlattenedList(list) == populateResult(<<>>, list)

\* ------------------------------------------------------------ file names

\* path.extname of the last component of a path, for the names of the model.
\* A name that starts with its only dot (".app") has no extension.
ExtOf(name) ==
    CASE name \in {"App.app", "Helper.app", "lnk.app"} -> ".app"
      [] name \in {"Lib.framework"}                    -> ".framework"
      [] name \in {"old.cstemp", "lnk.cstemp"}         -> ".cstemp"
      [] name \in {"a.dylib", "b.dylib"}               -> ".dylib"
      [] OTHER                                         -> ""

ExtName(filePath) == ExtOf(filePath[Len(filePath)])

\* Order in which readdir lists the names of one directory.
NameOrder ==
    <<"exe", "a.dylib", "b.dylib", "readme", "old.cstemp", "lnk", "lnk.app",
      "lnk.cstemp", "Contents", "Lib.framework", "Helper.app", ".app", "fifo",
      "keep", "App.app", "build", "ext">>

\* path.resolve(dirPath, child) for a child name returned by readdir.
Resolve(dirPath, child) == Append(dirPath, child)

IsPrefix(p, q) == Len(p) <= Len(q) /\ SubSeq(q, 1, Len(p)) = p

IsStrictPrefix(p, q) == Len(p) < Len(q) /\ SubSeq(q, 1, Len(p)) = p

\* ------------------------------------------------------------ filesystem

File(bin) == [kind |-> "file", bin |-> bin, target |-> <<>>]

Dir == [kind |-> "dir", bin |-> FALSE, target |-> <<>>]

Link(to) == [kind |-> "link", bin |-> FALSE, target |-> to]

Fifo == [kind |-> "other", bin |-> FALSE, target |-> <<>>]

Found(p) == [err |-> "", path |-> p]

Failed(e) == [err |-> e, path |-> <<>>]

RECURSIVE ResolvePath(_, _, _, _, _)

\* Path resolution of the operating system: `rest` is looked up below the
\* real directory `cur`, following every symbolic link met on the way and,
\* when followLast, the one the path ends with; n counts the links followed.
ResolvePath(fsys, cur, rest, n, followLast) ==
    IF rest = <<>> THEN Found(cur)
    ELSE LET q == Append(cur, Head(rest)) IN
         IF q \notin DOMAIN fsys THEN Failed("ENOENT")
         ELSE IF fsys[q].kind = "link" /\ (Len(rest) > 1 \/ followLast)
         THEN IF n >= MaxSymlinks THEN Failed("ELOOP")
              ELSE ResolvePath(fsys, <<>>, fsys[q].target \o Tail(rest),
                               n + 1, followLast)
         ELSE IF Len(rest) > 1 /\ fsys[q].kind # "dir" THEN Failed("ENOTDIR")
         ELSE ResolvePath(fsys, q, Tail(rest), n, followLast)

\* fs.promises.stat follows symbolic links; lstat (used by rm) does not
\* follow the last one.
StatPath(fsys, p) == ResolvePath(fsys, <<>>, p, 0, TRUE)

LstatPath(fsys, p) == ResolvePath(fsys, <<>>, p, 0, FALSE)

\* Names of the entries of the real directory d, in listing order.
Listing(fsys, d) ==
    LET here(i) == Append(d, NameOrder[i]) \in DOMAIN fsys
        F[i \in 0..Len(NameOrder)] ==
            IF i = 0 THEN <<>>
            ELSE IF here(i) THEN Append(F[i - 1], NameOrder[i]) ELSE F[i - 1]
    IN F[Len(NameOrder)]

\* The filesystem without the entry at real path q and everything below it.
Without(fsys, q) ==
    [p \in {x \in DOMAIN fsys : ~IsPrefix(q, x)} |-> fsys[p]]

Tree(entries) ==
    [p \in {e[1] : e \in entries} |-> (CHOOSE e \in entries : e[1] = p)[2]]

\* ------------------------------------------------------- initial trees

App == <<"App.app">>

\* Nested bundles, an empty bundle, two files of one extension of which one
\* is binary, and a stale artifact with binary content.
NestedBundles ==
    [root |-> App,
     fs |-> Tree({<<App, Dir>>,
                  <<App \o <<"a.dylib">>, File(TRUE)>>,
                  <<App \o <<"b.dylib">>, File(FALSE)>>,
                  <<App \o <<"old.cstemp">>, File(TRUE)>>,
                  <<App \o <<"Lib.framework">>, Dir>>,
                  <<App \o <<"Lib.framework", "exe">>, File(TRUE)>>,
                  <<App \o <<"Lib.framework", "Helper.app">>, Dir>>})]

\* A root that is no bundle, ordinary directories around a bundle, a
\* directory named ".app" around an empty bundle, and an entry that is
\* neither file nor directory; a binary file is listed after the directories.
PlainDirs ==
    [root |-> <<"build">>,
     fs |-> Tree({<<<<"build">>, Dir>>,
                  <<<<"build", "Contents">>, Dir>>,
                  <<<<"build", "Contents", "App.app">>, Dir>>,
                  <<<<"build", "Contents", "App.app", "old.cstemp">>, File(FALSE)>>,
                  <<<<"build", "Contents", "App.app", "exe">>, File(TRUE)>>,
                  <<<<"build", ".app">>, Dir>>,
                  <<<<"build", ".app", "Helper.app">>, Dir>>,
                  <<<<"build", "fifo">>, Fifo>>,
                  <<<<"build", "keep">>, File(TRUE)>>})]

\* Symbolic links to a binary file and to a bundle directory of the tree.
LinkedBundle ==
    [root |-> App,
     fs |-> Tree({<<App, Dir>>,
                  <<App \o <<"Lib.framework">>, Dir>>,
                  <<App \o <<"Lib.framework", "exe">>, File(TRUE)>>,
                  <<App \o <<"lnk">>, Link(App \o <<"Lib.framework", "exe">>)>>,
                  <<App \o <<"lnk.app">>, Link(App \o <<"Lib.framework">>)>>})]

\* A symbolic link to a stale artifact, and one named like a stale artifact.
LinkedStale ==
    [root |-> App,
     fs |-> Tree({<<App, Dir>>,
                  <<App \o <<"exe">>, File(TRUE)>>,
                  <<App \o <<"old.cstemp">>, File(TRUE)>>,
                  <<App \o <<"lnk">>, Link(App \o <<"old.cstemp">>)>>,
                  <<App \o <<"lnk.cstemp">>, Link(App \o <<"exe">>)>>})]

\* A symbolic link to an ancestor directory.
LinkedAncestor ==
    [root |-> App,
     fs |-> Tree({<<App, Dir>>,
                  <<App \o <<"exe">>, File(TRUE)>>,
                  <<App \o <<"Contents">>, Dir>>,
                  <<App \o <<"Contents", "lnk">>, Link(App)>>})]

\* A symbolic link to a directory outside the walked tree.
LinkedOutside ==
    [root |-> App,
     fs |-> Tree({<<App, Dir>>,
                  <<App \o <<"lnk">>, Link(<<"ext">>)>>,
                  <<<<"ext">>, Dir>>,
                  <<<<"ext", "old.cstemp">>, File(FALSE)>>,
                  <<<<"ext", "exe">>, File(TRUE)>>})]

\* A symbolic link whose target does not exist.
LinkedNowhere ==
    [root |-> App,
     fs |-> Tree({<<App, Dir>>,
                  <<App \o <<"exe">>, File(TRUE)>>,
                  <<App \o <<"lnk">>, Link(App \o <<"keep">>)>>})]

Trees ==
    {NestedBundles, PlainDirs, LinkedBundle, LinkedStale, LinkedAncestor,
     LinkedOutside, LinkedNowhere}

\* ------------------------------------------------------------ the walker

Pending(pc) == [pc |-> pc, val |-> Null, children |-> <<>>, op |-> ""]

Resolved(v, ch) == [pc |-> "resolved", val |-> v, children |-> ch, op |-> ""]

\* A failed operation that is tried again: the callback starts over.
RejectedRetried(ch, op) == Pending("stat")

\* op names the operation whose failure rejected the promise.
Rejected(ch, op) == [pc |-> "rejected", val |-> Null, children |-> ch, op |-> op]

\* The fs.Stats object fs.promises.stat(filePath) resolves with. stat follows
\* symbolic links, so the object describes the entry the path leads to.
Stats(fsys, filePath) ==
    LET r == StatPath(fsys, filePath) IN
    IF r.err # "" THEN [err |-> r.err, isFile |-> FALSE, isDirectory |-> FALSE,
                        isSymbolicLink |-> FALSE]
    ELSE [err |-> "",
          isFile |-> fsys[r.path].kind = "file",
          isDirectory |-> fsys[r.path].kind = "dir",
          isSymbolicLink |-> fsys[r.path].kind = "link"]

\* Classify without its case '.cstemp'.
ClassifyNoStaleCase(stat, filePath) ==
    IF stat.isFile THEN "bin"
    ELSE IF stat.isDirectory /\ ~stat.isSymbolicLink THEN "readdir"
    ELSE "null"

\* Where the callback of children.map goes after stat: remove a stale
\* artifact, test a file's content, walk a directory, or return null.
Classify(stat, filePath) ==
    IF stat.isFile
    THEN IF ExtName(filePath) = ".cstemp" THEN "rm" ELSE "bin"
    ELSE IF stat.isDirectory /\ ~stat.isSymbolicLink THEN "readdir"
    ELSE "null"

\* getFilePathIfBinary without its test.
getFilePathAlways(filePath, isBinaryFile) == Leaf(filePath)

getFilePathIfBinary(filePath, isBinaryFile) ==
    IF isBinaryFile THEN Leaf(filePath) ELSE Null

\* DirContribution with unshift in the place of push.
DirContributionFirst(filePath, walkResult) ==
    IF ExtName(filePath) \in {".app", ".framework"}
    THEN List(<<Leaf(filePath)>> \o walkResult.items)
    ELSE walkResult

\* DirContribution without the switch on the extension.
DirContributionAnyDir(filePath, walkResult) ==
    List(Append(walkResult.items, Leaf(filePath)))

\* What the callback returns for a directory once _walkAsync(filePath) has
\* resolved with walkResult.
DirContribution(filePath, walkResult) ==
    IF ExtName(filePath) \in {".app", ".framework"}
    THEN List(Append(walkResult.items, Leaf(filePath)))
    ELSE walkResult

\* Promise.allSettled in the place of Promise.all: a rejection counts as done.
PromiseAllSettled(states) ==
    IF \A i \in 1..Len(states) : states[i] \in {"resolved", "rejected"}
    THEN "resolved"
    ELSE "pending"

\* Promise.race in the place of Promise.all: settled with the first promise
\* that settles.
PromiseRace(states) ==
    IF \E i \in 1..Len(states) : states[i] = "rejected" THEN "rejected"
    ELSE IF states = <<>> \/ \E i \in 1..Len(states) : states[i] = "resolved"
    THEN "resolved"
    ELSE "pending"

\* State of Promise.all over promises in the given states.
PromiseAll(states) ==
    IF \E i \in 1..Len(states) : states[i] = "rejected" THEN "rejected"
    ELSE IF \A i \in 1..Len(states) : states[i] = "resolved" THEN "resolved"
    ELSE "pending"

ChildStates(p) ==
    [i \in 1..Len(task[p].children) |->
        LET s == task[Resolve(p, task[p].children[i])].pc IN
        IF s \in {"resolved", "rejected"} THEN s ELSE "pending"]

\* The children's values in the order the callbacks can finish: those of
\* plain entries first, those of walked directories after them.
ChildValuesAsFinished(p) ==
    LET ch == task[p].children
        isDirTask(i) == Len(task[Resolve(p, ch[i])].children) > 0
        pick(keep(_)) ==
            LET F[i \in 0..Len(ch)] ==
                    IF i = 0 THEN <<>>
                    ELSE IF keep(i) THEN Append(F[i - 1], task[Resolve(p, ch[i])].val)
                    ELSE F[i - 1]
            IN F[Len(ch)]
        plain(i) == ~isDirTask(i)
    IN pick(plain) \o pick(isDirTask)

ChildValues(p) ==
    [i \in 1..Len(task[p].children) |-> task[Resolve(p, task[p].children[i])].val]

Fault(fault) == IF fault THEN faults + 1 ELSE faults

\* const children = await fs.promises.readdir(dirPath), then children.map
\* starts one callback per child, each up to its stat call. A failed readdir
\* rejects _walkAsync, and at the root walk with it.
Readdir(p) ==
    /\ task[p].pc = "readdir"
    /\ \E fault \in BOOLEAN :
        /\ fault => faults < MaxFaults
        /\ faults' = Fault(fault)
        /\ LET r == StatPath(fs, p) IN
           IF ~fault /\ r.err = "" /\ fs[r.path].kind = "dir"
           THEN LET children == Listing(fs, r.path)
                    started == {Resolve(p, children[i]) : i \in 1..Len(children)}
                IN /\ task' = [q \in DOMAIN task \cup started |->
                                 IF q = p THEN [pc |-> "join", val |-> Null,
                                                children |-> children, op |-> ""]
                                 ELSE IF q \in started THEN Pending("stat")
                                 ELSE task[q]]
                   /\ UNCHANGED outcome
           ELSE /\ task' = [task EXCEPT ![p] = Rejected(<<>>, "readdir")]
                /\ IF p = root THEN outcome' = "rejected" ELSE UNCHANGED outcome
    /\ UNCHANGED <<fs, fs0, root, result, run, prev, removed, envMoves, flatVars, pwVars>>

\* const stat = await fs.promises.stat(filePath) and the branch taken on it.
Stat(p) ==
    /\ task[p].pc = "stat"
    /\ \E fault \in BOOLEAN :
        /\ fault => faults < MaxFaults
        /\ faults' = Fault(fault)
        /\ LET stat == Stats(fs, p) IN
           IF fault \/ stat.err # ""
           THEN task' = [task EXCEPT ![p] = Rejected(<<>>, "stat")]
           ELSE LET next == Classify(stat, p) IN
                task' = [task EXCEPT ![p] =
                           IF next = "null" THEN Resolved(Null, <<>>)
                           ELSE Pending(next)]
    /\ UNCHANGED <<fs, fs0, root, outcome, result, run, prev, removed, envMoves,
                   flatVars, pwVars>>

\* rm without force: a missing path is an error.
RmStrict(err) == err = ""

\* Outcomes of looking up the path under which rm({ force: true }) does not
\* reject: the entry is there, or it is missing.
RmTolerates(err) == err \in {"", "ENOENT"}

\* await fs.promises.rm(filePath, { recursive: true, force: true }); return null
Rm(p) ==
    /\ task[p].pc = "rm"
    /\ \E fault \in BOOLEAN :
        /\ fault => faults < MaxFaults
        /\ faults' = Fault(fault)
        /\ LET r == LstatPath(fs, p) IN
           IF fault \/ ~RmTolerates(r.err)
           THEN /\ task' = [task EXCEPT ![p] = Rejected(<<>>, "rm")]
                /\ UNCHANGED <<fs, removed>>
           ELSE /\ task' = [task EXCEPT ![p] = Resolved(Null, <<>>)]
                /\ IF r.err = "ENOENT"
                   THEN UNCHANGED <<fs, removed>>
                   ELSE /\ fs' = Without(fs, r.path)
                        /\ removed' = removed \cup
                              {[path |-> x, node |-> fs[x]] :
                                  x \in {y \in DOMAIN fs : IsPrefix(r.path, y)}}
    /\ UNCHANGED <<fs0, root, outcome, result, run, prev, envMoves, flatVars, pwVars>>

\* The default case with a catch around the test that returns null.
SniffedSwallowed(filePath, failed, isBinaryFile) ==
    IF failed
    THEN [pc |-> "resolved", val |-> Null, children |-> <<>>, op |-> "isBinaryFile"]
    ELSE Resolved(getFilePathIfBinary(filePath, isBinaryFile), <<>>)

\* The promise of the default case once isBinaryFile has settled: a failed
\* test rejects getFilePathIfBinary and the callback awaiting it.
Sniffed(filePath, failed, isBinaryFile) ==
    IF failed THEN Rejected(<<>>, "isBinaryFile")
    ELSE Resolved(getFilePathIfBinary(filePath, isBinaryFile), <<>>)

\* return await getFilePathIfBinary(filePath)
IsBinary(p) ==
    /\ task[p].pc = "bin"
    /\ \E fault \in BOOLEAN :
        /\ fault => faults < MaxFaults
        /\ faults' = Fault(fault)
        /\ LET r == StatPath(fs, p)
               failed == fault \/ r.err # "" \/ fs[r.path].kind # "file"
               bin == IF failed THEN FALSE ELSE fs[r.path].bin
           IN task' = [task EXCEPT ![p] = Sniffed(p, failed, bin)]
    /\ UNCHANGED <<fs, fs0, root, outcome, result, run, prev, removed, envMoves,
                   flatVars, pwVars>>

\* walk treating its own directory as the callback treats a child directory.
WalkReturnWithRoot(dirPath, allPaths) ==
    compactFlattenedList(DirContribution(dirPath, allPaths))

\* const allPaths = await _walkAsync(dirPath); return compactFlattenedList(allPaths)
WalkReturn(dirPath, allPaths) == compactFlattenedList(allPaths)

\* Promise.all of a directory's callbacks is fulfilled: _walkAsync returns;
\* below the root the awaiting callback adds the bundle's own path, at the
\* root walk flattens allPaths and resolves.
Join(p) ==
    /\ task[p].pc = "join"
    /\ PromiseAll(ChildStates(p)) = "resolved"
    /\ LET walkResult == List(ChildValues(p)) IN
       IF p = root
       THEN /\ task' = [task EXCEPT ![p] = Resolved(walkResult, task[p].children)]
            /\ result' = WalkReturn(p, walkResult)
            /\ outcome' = "resolved"
       ELSE /\ task' = [task EXCEPT ![p] =
                          Resolved(DirContribution(p, walkResult), task[p].children)]
            /\ UNCHANGED <<result, outcome>>
    /\ UNCHANGED <<fs, fs0, root, run, prev, removed, faults, envMoves, flatVars, pwVars>>

\* Promise.all of a directory's callbacks is rejected: the rejection goes up
\* through every await, at the root to the caller of walk. The callbacks of
\* the other children are not cancelled.
Reject(p) ==
    /\ task[p].pc = "join"
    /\ PromiseAll(ChildStates(p)) = "rejected"
    /\ task' = [task EXCEPT ![p] = Rejected(task[p].children, "Promise.all")]
    /\ IF p = root THEN outcome' = "rejected" ELSE UNCHANGED outcome
    /\ UNCHANGED <<fs, fs0, root, result, run, prev, removed, faults, envMoves,
                   flatVars, pwVars>>

\* The caller calls walk(root) again after the previous call resolved.
WalkAgain ==
    /\ outcome = "resolved"
    /\ run < MaxRuns
    /\ run' = run + 1
    /\ prev' = result
    /\ result' = <<>>
    /\ outcome' = "running"
    /\ task' = [q \in {root} |-> Pending("readdir")]
    /\ fs0' = fs
    /\ removed' = {}
    /\ UNCHANGED <<fs, root, faults, envMoves, flatVars, pwVars>>

\* Another actor removes a file or a symbolic link.
EnvRemove(q) ==
    /\ envMoves < MaxEnv
    /\ fs[q].kind \in {"file", "link"}
    /\ fs' = Without(fs, q)
    /\ envMoves' = envMoves + 1
    /\ UNCHANGED <<fs0, root, task, outcome, result, run, prev, removed, faults,
                   flatVars, pwVars>>

\* Another actor puts a directory with a file in it in the place of a stale
\* artifact.
EnvReplace(q) ==
    /\ envMoves < MaxEnv
    /\ fs[q].kind = "file"
    /\ ExtName(q) = ".cstemp"
    /\ fs' = [x \in DOMAIN fs \cup {Append(q, "keep")} |->
                IF x = q THEN Dir
                ELSE IF x = Append(q, "keep") THEN File(TRUE)
                ELSE fs[x]]
    /\ envMoves' = envMoves + 1
    /\ UNCHANGED <<fs0, root, task, outcome, result, run, prev, removed, faults,
                   flatVars, pwVars>>

InitWalk(trees) ==
    /\ \E t \in trees : fs = t.fs /\ fs0 = t.fs /\ root = t.root
    /\ task = [q \in {root} |-> Pending("readdir")]
    /\ outcome = "running"
    /\ result = <<>>
    /\ run = 1
    /\ prev = <<>>
    /\ removed = {}
    /\ faults = 0
    /\ envMoves = 0

\* removePassword is not called.
NoRedaction ==
    /\ pwA = <<>> /\ pwB = <<>> /\ pwAt = 0 /\ pwForm = "none"
    /\ pwOutA = <<>> /\ pwOutB = <<>> /\ pwPc = "idle"

Init ==
    /\ InitWalk(Trees)
    /\ flatIn = List(<<>>)
    /\ flatOut = <<>>
    /\ flatPc = "idle"
    /\ NoRedaction

\* One step of a running or rejected walk: a filesystem operation returns or
\* a Promise.all settles.
WalkStep ==
    \/ \E p \in DOMAIN task : Readdir(p)
    \/ \E p \in DOMAIN task : Stat(p)
    \/ \E p \in DOMAIN task : Rm(p)
    \/ \E p \in DOMAIN task : IsBinary(p)
    \/ \E p \in DOMAIN task : Join(p)
    \/ \E p \in DOMAIN task : Reject(p)

Next ==
    \/ WalkStep
    \/ WalkAgain

\* The walk alone: nothing else touches the filesystem.
Spec == Init /\ [][Next]_vars

\* The trees another actor works on: those with stale artifacts.
RaceTrees == {NestedBundles, LinkedStale}

InitRace ==
    /\ InitWalk(RaceTrees)
    /\ flatIn = List(<<>>)
    /\ flatOut = <<>>
    /\ flatPc = "idle"
    /\ NoRedaction

NextRace ==
    \/ WalkStep
    \/ \E q \in DOMAIN fs : EnvRemove(q)
    \/ \E q \in DOMAIN fs : EnvReplace(q)

\* One walk with another actor changing the filesystem under it.
SpecRace == InitRace /\ [][NextRace]_vars

\* ------------------------------------------- compactFlattenedList alone

\* Strings the leaves of the flattener's inputs are drawn from: the empty
\* string and a path.
LeafVals == {<<>>, <<"a">>}

SeqsUpTo(S, n) == UNION {[1..k -> S] : k \in 0..n}

RECURSIVE Items(_)

\* Every DeepListItem<string> nested at most d deep.
Items(d) ==
    IF d = 0 THEN {Null} \cup {Leaf(v) : v \in LeafVals}
    ELSE Items(d - 1) \cup {List(xs) : xs \in SeqsUpTo(Items(d - 1), MaxLen)}

FlatInputs == {List(xs) : xs \in SeqsUpTo(Items(MaxNest), MaxLen)}

\* result = compactFlattenedList(list)
Flatten ==
    /\ flatPc = "call"
    /\ flatOut' = compactFlattenedList(flatIn)
    /\ flatPc' = "done"
    /\ UNCHANGED <<flatIn, walkVars, pwVars>>

InitFlat ==
    /\ flatIn \in FlatInputs
    /\ flatOut = <<>>
    /\ flatPc = "call"
    /\ fs = NestedBundles.fs
    /\ fs0 = NestedBundles.fs
    /\ root = NestedBundles.root
    /\ task = [q \in {root} |-> Pending("readdir")]
    /\ outcome = "running"
    /\ result = <<>>
    /\ run = 1
    /\ prev = <<>>
    /\ removed = {}
    /\ faults = 0
    /\ envMoves = 0
    /\ NoRedaction

NextFlat == Flatten

\* compactFlattenedList applied to every input within the bounds.
SpecFlat == InitFlat /\ [][NextFlat]_vars

\* -------------------------------------------------------- removePassword

\* A string is the sequence of its characters; a character that plays no
\* part is kept as one atom with the characters around it.
Stars == <<"*", "*", "*">>

secretFlags == {<<"-P">>, <<"--password">>, <<"-pass">>, <<"/p">>, <<"pass:">>}

\* a.indexOf('='): index, counted from 0, of the first '=' of a, or -1.
IndexOfEq(a) ==
    IF \E k \in 1..Len(a) : a[k] = "="
    THEN (CHOOSE k \in 1..Len(a) :
              a[k] = "=" /\ \A j \in 1..(k - 1) : a[j] # "=") - 1
    ELSE -1

\* a.slice(0, end)
SliceTo(a, end) == SubSeq(a, 1, end)

\* `${flag}=***`
FlagEqStars(flag) == flag \o <<"=">> \o Stars

\* Value of i at the next test of the loop when the loop does not skip the
\* argument after a secret flag.
AfterFlagNoSkip(i) == i + 1

\* Value of i at the next test of the loop after a secret flag at index i:
\* i++ in the body, then the loop's own i++.
AfterFlag(i) == i + 2

RECURSIVE redactFrom(_, _, _)

\* The loop of removePassword from index i (counted from 0) on, with the
\* words pushed so far.
redactFrom(input, i, redacted) ==
    IF ~(i < Len(input)) THEN redacted
    ELSE
        LET a == input[i + 1]
            eqIndex == IndexOfEq(a)
            flag == SliceTo(a, eqIndex)
        IN IF eqIndex > -1 /\ flag \in secretFlags
           THEN redactFrom(input, i + 1, Append(redacted, FlagEqStars(flag)))
           ELSE IF a \in secretFlags
           THEN redactFrom(input, AfterFlag(i), redacted \o <<a, Stars>>)
           ELSE redactFrom(input, i + 1, Append(redacted, a))

RECURSIVE JoinSpace(_)

\* words.join(' ')
JoinSpace(words) ==
    IF Len(words) = 0 THEN <<>>
    ELSE IF Len(words) = 1 THEN words[1]
    ELSE words[1] \o <<" ">> \o JoinSpace(Tail(words))

removePassword(input) == JoinSpace(redactFrom(input, 0, <<>>))

\* Arguments the lists are built from: two secret flags, a plain argument
\* and one with '='.
ArgPool == {<<"-P">>, <<"pass:">>, <<"a">>, <<"a", "=", "b">>}

\* Secret values; their characters occur in no argument of ArgPool.
Secrets == {<<"s">>, <<"t">>, <<"s", "=", "t">>}

SecretChars == {"s", "t"}

\* The argument list base with the secret v put at index at: as the whole
\* argument, or after '=' behind the flag f.
WithSecret(base, at, form, f, v) ==
    [base EXCEPT ![at] = IF form = "eq" THEN f \o <<"=">> \o v ELSE v]

\* debugLog('Executing...', file, removePassword(args)) for both lists.
Redact ==
    /\ pwPc = "call"
    /\ pwOutA' = removePassword(pwA)
    /\ pwOutB' = removePassword(pwB)
    /\ pwPc' = "done"
    /\ UNCHANGED <<pwA, pwB, pwAt, pwForm, walkVars, flatVars>>

\* Two argument lists that differ only in the value that follows a secret
\* flag: as the next argument, or after '=' in the same argument.
InitPw ==
    /\ \E base \in SeqsUpTo(ArgPool, MaxArgs) :
       \E at \in 1..Len(base) :
       \E form \in {"next", "eq"} :
       \E f \in secretFlags \cap ArgPool :
       \E v1, v2 \in Secrets :
          /\ v1 # v2
          /\ form = "next" => (at > 1 /\ base[at - 1] \in secretFlags)
          /\ pwA = WithSecret(base, at, form, f, v1)
          /\ pwB = WithSecret(base, at, form, f, v2)
          /\ pwAt = at
          /\ pwForm = form
    /\ pwOutA = <<>>
    /\ pwOutB = <<>>
    /\ pwPc = "call"
    /\ flatIn = List(<<>>)
    /\ flatOut = <<>>
    /\ flatPc = "idle"
    /\ fs = NestedBundles.fs
    /\ fs0 = NestedBundles.fs
    /\ root = NestedBundles.root
    /\ task = [q \in {root} |-> Pending("readdir")]
    /\ outcome = "running"
    /\ result = <<>>
    /\ run = 1
    /\ prev = <<>>
    /\ removed = {}
    /\ faults = 0
    /\ envMoves = 0

NextPw == Redact

\* removePassword applied to every such pair of lists within the bounds.
SpecPw == InitPw /\ [][NextPw]_vars

\* ------------------------------------------------------------ properties

Range(seq) == {seq[i] : i \in 1..Len(seq)}

Count(seq, x) == Cardinality({i \in 1..Len(seq) : seq[i] = x})

IsBundle(p) == ExtName(p) \in {".app", ".framework"}

\* The entry the path p itself names (no link followed at the end) is a
\* symbolic link.
IsLink(fsys, p) ==
    LET r == LstatPath(fsys, p) IN r.err = "" /\ fsys[r.path].kind = "link"

\* p names a symbolic link or leads through one.
CrossesLink(fsys, p) == \E k \in 1..Len(p) : IsLink(fsys, SubSeq(p, 1, k))

\* Real entries of the walked tree: strictly below the root.
InTree(q) == IsStrictPrefix(root, q)

\* C1 - post-order bundle placement: in the sequence walk resolved with,
\* every path inside a bundle directory that is itself in the sequence comes
\* at a strictly smaller index than the bundle.
C1_PostOrder ==
    outcome = "resolved" =>
        \A i, j \in 1..Len(result) :
            (IsBundle(result[j]) /\ IsStrictPrefix(result[j], result[i])) => i < j

\* A walk resolved with a bundle nested in a bundle and a file in the outer one.
C1_Witness ==
    /\ outcome = "resolved"
    /\ \E i, j, k \in 1..Len(result) :
        /\ i # j
        /\ IsBundle(result[i]) /\ IsBundle(result[k])
        /\ ~IsBundle(result[j])
        /\ IsStrictPrefix(result[k], result[i])
        /\ IsStrictPrefix(result[k], result[j])

\* C2 - symlink exclusion: walk starts no callback below a symbolic link
\* (never recurses into its target), and no path it resolves with names a
\* symbolic link or leads through one.
C2_SymlinkExclusion ==
    /\ \A p \in DOMAIN task :
          \A k \in 1..(Len(p) - 1) : ~IsLink(fs0, SubSeq(p, 1, k))
    /\ \A i \in 1..Len(result) : ~CrossesLink(fs0, result[i])

\* C3 - directory reporting: on a resolved walk a real directory strictly
\* below the root is in the sequence exactly once if its extension is .app
\* or .framework and never otherwise, and in both cases the binary files and
\* the bundles below it are in the sequence.
C3_DirectoryReporting ==
    outcome = "resolved" =>
        \A d \in DOMAIN fs0 :
            (fs0[d].kind = "dir" /\ InTree(d)) =>
                /\ Count(result, d) = (IF IsBundle(d) THEN 1 ELSE 0)
                /\ \A f \in DOMAIN fs0 :
                      (/\ IsStrictPrefix(d, f)
                       /\ \/ fs0[f].kind = "file" /\ fs0[f].bin
                                /\ ExtName(f) # ".cstemp"
                          \/ fs0[f].kind = "dir" /\ IsBundle(f))
                      => f \in Range(result)

\* A walk resolved on a tree with an empty bundle, and with a directory
\* without bundle extension around a binary file.
C3_Witness ==
    /\ outcome = "resolved"
    /\ \E d \in DOMAIN fs0 :
        /\ fs0[d].kind = "dir" /\ InTree(d) /\ IsBundle(d)
        /\ ~\E f \in DOMAIN fs0 : IsStrictPrefix(d, f)
        /\ Count(result, d) = 1
    /\ \E d \in DOMAIN fs0 :
        /\ fs0[d].kind = "dir" /\ InTree(d) /\ ~IsBundle(d)
        /\ d \notin Range(result)
        /\ \E f \in Range(result) : IsStrictPrefix(d, f) /\ fs0[f].kind = "file"

\* C4 - binary filtering: on a resolved walk a regular file of the walked
\* tree whose extension is not .cstemp is in the sequence if and only if
\* isBinaryFile holds for it.
C4_BinaryFiltering ==
    outcome = "resolved" =>
        \A f \in DOMAIN fs0 :
            (fs0[f].kind = "file" /\ InTree(f) /\ ExtName(f) # ".cstemp") =>
                (f \in Range(result) <=> fs0[f].bin)

\* A walk resolved on a tree with two regular files of one extension, the
\* binary one reported and the other not.
C4_Witness ==
    /\ outcome = "resolved"
    /\ \E f, g \in DOMAIN fs0 :
        /\ fs0[f].kind = "file" /\ fs0[g].kind = "file"
        /\ InTree(f) /\ InTree(g)
        /\ ExtName(f) = ExtName(g) /\ ExtName(f) = ".dylib"
        /\ fs0[f].bin /\ ~fs0[g].bin
        /\ f \in Range(result) /\ g \notin Range(result)

\* C5 - stale-artifact reclamation: once walk has resolved, no regular file
\* with extension .cstemp that was in the walked tree when walk was called
\* exists any more, and no path of the sequence has extension .cstemp.
C5_StaleReclaimed ==
    outcome = "resolved" =>
        /\ \A f \in DOMAIN fs0 :
              (fs0[f].kind = "file" /\ InTree(f) /\ ExtName(f) = ".cstemp") =>
                  f \notin DOMAIN fs
        /\ \A i \in 1..Len(result) : ExtName(result[i]) # ".cstemp"

\* A walk resolved on a tree that held a stale artifact with binary content.
C5_Witness ==
    /\ outcome = "resolved"
    /\ \E f \in DOMAIN fs0 :
        /\ fs0[f].kind = "file" /\ InTree(f) /\ ExtName(f) = ".cstemp"
        /\ fs0[f].bin
        /\ f \notin DOMAIN fs
        /\ \E r \in removed : r.path = f

\* C6 - failure propagation: once listing a directory, a stat or a removal
\* has failed at any depth, walk does not resolve and has rejected by the
\* time every promise of it is settled, and a rejected walk delivers no
\* path list.
C6_FailurePropagation ==
    /\ (\E p \in DOMAIN task : task[p].pc = "rejected") =>
          /\ outcome # "resolved" /\ result = <<>>
          /\ (\A p \in DOMAIN task : task[p].pc \in {"resolved", "rejected"})
                => outcome = "rejected"
    /\ outcome = "rejected" => result = <<>>

\* walk rejected after a removal failed three levels below the root while
\* another branch had already collected a path.
C6_Witness ==
    /\ outcome = "rejected"
    /\ \E p \in DOMAIN task :
        /\ task[p].pc = "rejected" /\ task[p].op = "rm"
        /\ Len(p) >= Len(root) + 3
    /\ \E q \in DOMAIN task : task[q].pc = "resolved" /\ task[q].val.t = "leaf"

\* The non-null leaves of a DeepListItem, depth first and left to right.
RECURSIVE Leaves(_)

Leaves(x) ==
    CASE x.t = "null" -> <<>>
      [] x.t = "leaf" -> <<x.v>>
      [] OTHER        ->
            LET F[i \in 0..Len(x.items)] ==
                    IF i = 0 THEN <<>> ELSE F[i - 1] \o Leaves(x.items[i])
            IN F[Len(x.items)]

\* C7 - flattening correctness: compactFlattenedList returns exactly the
\* non-null leaves of its input, each as often as it occurs, depth first
\* and left to right.
C7_Flattening == flatPc = "done" => flatOut = Leaves(flatIn)

\* C8 - walk idempotence: a second walk(root) on a tree nothing else has
\* touched, with no I/O failure, resolves with the sequence the first
\* resolved with and removes nothing.
C8_Idempotence ==
    (run = 2 /\ faults = 0) =>
        /\ removed = {}
        /\ outcome # "running" => (outcome = "resolved" /\ result = prev)

\* C9 - frame of the walk: a step of walk changes the filesystem only by
\* removing regular files with extension .cstemp of the walked tree; every
\* other entry stays as it is, whatever another actor did before the step.
C9_Frame ==
    [][envMoves' = envMoves =>
          /\ DOMAIN fs' \subseteq DOMAIN fs
          /\ \A q \in DOMAIN fs :
                IF q \in DOMAIN fs' THEN fs'[q] = fs[q]
                ELSE fs[q].kind = "file" /\ ExtName(q) = ".cstemp" /\ InTree(q)]_vars

\* C10 - join point: a directory's promise is fulfilled only when the
\* promise of each of its children is, and walk has resolved only when
\* every promise of the walk is fulfilled.
C10_JoinPoint ==
    /\ \A p \in DOMAIN task :
          task[p].pc = "resolved" =>
              \A i \in 1..Len(task[p].children) :
                  task[Resolve(p, task[p].children[i])].pc = "resolved"
    /\ outcome = "resolved" => \A p \in DOMAIN task : task[p].pc = "resolved"

\* A nested directory has handed its contribution to its parent while a
\* sibling of it is still at work, each of its own children being done.
C10_Witness ==
    /\ outcome = "running"
    /\ \E p, q \in DOMAIN task :
        /\ Len(p) = Len(q) /\ p # root
        /\ task[p].pc = "resolved" /\ Len(task[p].children) >= 2
        /\ task[q].pc \in {"stat", "rm", "bin"}

\* What one callback after the other, each run to its end on the tree fsys
\* before the next starts, returns for the entry at filePath and for the
\* directory at dirPath.
RECURSIVE SequentialItem(_, _)

SequentialList(fsys, dirPath) ==
    LET r == StatPath(fsys, dirPath)
        children == IF r.err = "" THEN Listing(fsys, r.path) ELSE <<>>
    IN List([i \in 1..Len(children) |->
                SequentialItem(fsys, Resolve(dirPath, children[i]))])

SequentialItem(fsys, filePath) ==
    LET stat == Stats(fsys, filePath)
        next == IF stat.err # "" THEN "null" ELSE Classify(stat, filePath)
    IN CASE next = "bin" ->
                getFilePathIfBinary(filePath, fsys[StatPath(fsys, filePath).path].bin)
         [] next = "readdir" ->
                DirContribution(filePath, SequentialList(fsys, filePath))
         [] OTHER -> Null

C12_DeleteRace ==
    /\ [][\A p \in DOMAIN task :
            (p \in DOMAIN task' /\ task'[p] # task[p] /\ faults' = faults) =>
                /\ (task[p].pc = "rm" /\ LstatPath(fs, p).err = "ENOENT") =>
                      (task'[p] = Resolved(Null, <<>>) /\ fs' = fs)
                /\ (task[p].pc = "stat" /\ StatPath(fs, p).err = "ENOENT") =>
                      task'[p].pc = "rejected"]_vars
    /\ []((\E p \in DOMAIN task : task[p].pc = "rejected") => outcome # "resolved")

\* A walk resolved although a stale artifact it had stat-ed was removed by
\* another actor, not by the walk's own rm.
C12_Witness ==
    /\ outcome = "resolved"
    /\ envMoves > 0
    /\ \E p \in DOMAIN task :
        /\ ExtName(p) = ".cstemp"
        /\ p \in DOMAIN fs0 /\ fs0[p].kind = "file"
        /\ p \notin DOMAIN fs
        /\ task[p] = Resolved(Null, <<>>)
        /\ \A r \in removed : r.path # p

\* C13 - content-inspection failure: a callback whose binary test failed
\* is rejected, a walk with such a callback does not resolve and has
\* rejected once every promise of it is settled; so no binary regular file
\* of the tree is missing from a list walk resolved with.
C13_InspectionFailure ==
    /\ \A p \in DOMAIN task :
          task[p].op = "isBinaryFile" =>
              /\ task[p].pc = "rejected"
              /\ outcome # "resolved"
              /\ (\A q \in DOMAIN task : task[q].pc \in {"resolved", "rejected"})
                    => outcome = "rejected"
    /\ outcome = "resolved" =>
          \A p \in DOMAIN task :
              (/\ p \in DOMAIN fs0 /\ fs0[p].kind = "file" /\ fs0[p].bin
               /\ ExtName(p) # ".cstemp")
              => p \in Range(result)

\* walk rejected after the test of a binary regular file failed with an
\* I/O error.
C13_Witness ==
    /\ outcome = "rejected"
    /\ faults > 0
    /\ \E p \in DOMAIN task :
        /\ task[p].op = "isBinaryFile"
        /\ p \in DOMAIN fs /\ fs[p].kind = "file" /\ fs[p].bin

\* A filesystem operation of the walk returns.
FsOp ==
    \E p \in DOMAIN task : Readdir(p) \/ Stat(p) \/ Rm(p) \/ IsBinary(p)

\* C14 - stop at first failure, as claimed: once walk has rejected, no
\* callback of it performs a filesystem operation, so the filesystem stays
\* as it is.
C14_StopAtFirstFailure == [][outcome = "rejected" => (~FsOp /\ fs' = fs)]_vars

\* C14 - as amended: a failed operation rejects a promise in the same step
\* and is not tried again, a rejected promise stays as it is, and a rejected
\* walk stays rejected and delivers no list; the callbacks of siblings are
\* not cancelled (C14_Witness).
C14_FailureIsFinal ==
    [][/\ faults' > faults =>
            \E p \in DOMAIN task :
                task[p].pc # "rejected" /\ task'[p].pc = "rejected"
       /\ \A p \in DOMAIN task :
            task[p].pc = "rejected" => (p \in DOMAIN task' /\ task'[p] = task[p])
       /\ outcome = "rejected" => (outcome' = "rejected" /\ result' = <<>>)]_vars

\* walk has rejected while a sibling's callback is about to remove a stale
\* artifact that is still there.
C14_Witness ==
    /\ outcome = "rejected"
    /\ \E p \in DOMAIN task :
        /\ task[p].pc = "rm"
        /\ p \in DOMAIN fs /\ fs[p].kind = "file"

\* Nesting depth of the real directories of the walked tree, the root
\* counting as one.
RealDepth ==
    LET dirs == {d \in DOMAIN fs0 : fs0[d].kind = "dir" /\ IsPrefix(root, d)}
    IN CHOOSE n \in 1..(Cardinality(dirs) + 1) :
          /\ \E d \in dirs : Len(d) - Len(root) + 1 = n
          /\ \A d \in dirs : Len(d) - Len(root) + 1 <= n

\* Depth of the _walkAsync call for the directory at path p.
FrameDepth(p) == Len(p) - Len(root) + 1

\* C15 - termination: a walk that has not settled can always take a step
\* (it never waits for something that cannot come), and no call of
\* _walkAsync is nested deeper than the real directories of the tree are.
C15_Termination ==
    /\ outcome = "running" => ENABLED WalkStep
    /\ \A p \in DOMAIN task :
          task[p].pc \in {"readdir", "join"} => FrameDepth(p) <= RealDepth

\* C16 - root exclusion: the directory given to walk is never in the
\* sequence walk resolves with, also when it is a bundle; every path of the
\* sequence lies strictly below it.
C16_RootExclusion ==
    /\ root \notin Range(result)
    /\ \A i \in 1..Len(result) : IsStrictPrefix(root, result[i])

\* A walk of a bundle resolved with a bundle found below it.
C16_Witness ==
    /\ outcome = "resolved"
    /\ IsBundle(root)
    /\ \E i \in 1..Len(result) :
        /\ IsBundle(result[i])
        /\ result[i] \in DOMAIN fs0
        /\ fs0[result[i]].kind = "dir"

RECURSIVE IsFlagPos(_, _)

\* The argument at index j (counted from 1) is a secret flag and is read as
\* one: it is not itself the value of a secret flag read just before it.
IsFlagPos(args, j) ==
    /\ j \in 1..Len(args)
    /\ args[j] \in secretFlags
    /\ ~IsFlagPos(args, j - 1)

\* The argument at index j is the value of the secret flag before it.
IsValuePos(args, j) == IsFlagPos(args, j - 1)

\* The part of a before its first '=' is a secret flag.
IsEqSecret(a) ==
    \E k \in 1..Len(a) :
        /\ a[k] = "="
        /\ \A j \in 1..(k - 1) : a[j] # "="
        /\ SubSeq(a, 1, k - 1) \in secretFlags

\* The part of a before its first '='.
BeforeEq(a) ==
    SubSeq(a, 1, (CHOOSE k \in 1..Len(a) :
                      a[k] = "=" /\ \A j \in 1..(k - 1) : a[j] # "=") - 1)

\* The words of the redacted list: '***' for the value of every secret flag
\* read as one, flag=*** for every flag=value, '***' added after a secret
\* flag that ends the list, every other argument as it is.
RedactedWords(args) ==
    [j \in 1..Len(args) |->
        IF IsValuePos(args, j) THEN Stars
        ELSE IF IsEqSecret(args[j]) THEN BeforeEq(args[j]) \o <<"=">> \o Stars
        ELSE args[j]]
    \o (IF IsFlagPos(args, Len(args)) THEN <<Stars>> ELSE <<>>)

\* C17 - secret independence as stated: two argument lists that differ only
\* in the value following a secret flag give the same string, and no
\* character of the value is in it.
C17_SecretIndependence ==
    pwPc = "done" =>
        /\ pwOutA = pwOutB
        /\ Range(pwOutA) \cap SecretChars = {}
        /\ Range(pwOutB) \cap SecretChars = {}

\* C17 amended - when the secret flag before the value is read as a flag
\* (it is not itself taken as the value of the secret flag before it), or
\* the value follows '=', the two lists give the same string, '***' stands
\* in place of the value, no character of the value is in the string, and
\* the string is the list with every such value replaced, joined by spaces.
C17_RecognisedFlagIndependence ==
    (/\ pwPc = "done"
     /\ pwForm = "next" => IsFlagPos(pwA, pwAt - 1)) =>
        /\ pwOutA = pwOutB
        /\ Range(pwOutA) \cap SecretChars = {}
        /\ RedactedWords(pwA)[pwAt] \in {Stars} \cup
               {f \o <<"=">> \o Stars : f \in secretFlags}
        /\ pwOutA = JoinSpace(RedactedWords(pwA))
        /\ pwOutB = JoinSpace(RedactedWords(pwB))

\* removePassword returned for two lists whose secret follows a secret flag
\* read as one, with a plain argument after the secret.
C17_Witness ==
    /\ pwPc = "done"
    /\ pwForm = "next"
    /\ IsFlagPos(pwA, pwAt - 1)
    /\ pwAt < Len(pwA)
    /\ pwA[pwAt + 1] = <<"a", "=", "b">>
    /\ pwA # pwB

====
